---- MODULE Spec2Model ----
(***************************************************************************)
(* Model of the retro-tournament stream relay.                             *)
(*                                                                         *)
(*  Server (src/server/src/index.ts): the hub in main() (clients,          *)
(*  isCapturing and the handlers of the WebSocket server and of the        *)
(*  ScreenCapture emitter) and the class ScreenCapture (ffmpeg, isRunning, *)
(*  start, stop and the listeners start() puts on the child process).      *)
(*  Every handler runs to completion on the event loop: one action each.   *)
(*                                                                         *)
(*  Client (src/client/src/hooks/useStreamPlayer.ts): the refs and the     *)
(*  React state of useStreamPlayer, appendNextChunk, cleanup, connect,     *)
(*  disconnect and the listeners connect() registers.                      *)
(***************************************************************************)
EXTENDS Integers, Sequences, FiniteSets, TLC

\* ------------------------------------------------------------------ bounds
MaxConns == 3      \* subscriber connections the server accepts in a run
MaxOpen  == 2      \* connections that are not yet closed at one time
MaxProcs == 3      \* producer processes spawned in a run
MaxData  == 2      \* stdout 'data' events in a run
MaxSessions == 2   \* MediaSource objects connect() creates in a run
MaxSegs  == 3      \* transport messages the client receives in a run
SegBytes == 1      \* byteLength of a message

Conns == 1..MaxConns
Procs == 1..MaxProcs

\* ------------------------------------------------------------- server state
VARIABLES
  clients,      \* index.ts:39  Set<WebSocket>, kept in insertion order
  isCapturing,  \* index.ts:40
  ffmpeg,       \* index.ts:129 ChildProcess | null  (0 is null)
  isRunning,    \* index.ts:130
  proc,         \* the child processes: "none" | "failing" | "live" |
                \*   "killed" | "failed" | "exited"
  readyState,   \* each connection's WebSocket: "new" | "OPEN" | "CLOSING"
                \*   | "CLOSED"
  serverUp,     \* the node process is alive
  emitLog,      \* history: the 'data' events in the order they were emitted
  sent,         \* history: per connection, the indexes of emitLog sent to it
  joinedAt,     \* history: Len(emitLog) when the connection joined
  last,         \* history: what the last handler did
  startCalls,   \* history: invocations of start() by the last handler
  stopCalls     \* history: invocations of stop() by the last handler

svars == <<clients, isCapturing, ffmpeg, isRunning, proc, readyState,
           serverUp, emitLog, sent, joinedAt, last, startCalls, stopCalls>>

\* ------------------------------------------------------------- client state
\* Durations are counted in half seconds.
VARIABLES
  wsRef,            \* useStreamPlayer.ts:22  session of the WebSocket, 0: null
  mediaSourceRef,   \* useStreamPlayer.ts:23  session of the MediaSource, 0: null
  sourceBufferRef,  \* useStreamPlayer.ts:24  session of the SourceBuffer, 0: null
  queueRef,         \* useStreamPlayer.ts:25
  isAppendingRef,   \* useStreamPlayer.ts:26
  isConnected,      \* useStreamPlayer.ts:28
  isBuffering,      \* useStreamPlayer.ts:29
  error,            \* useStreamPlayer.ts:30  "null" or the message
  stats,            \* useStreamPlayer.ts:31
  bytesReceivedRef, \* useStreamPlayer.ts:33
  hasMSE,           \* 'MediaSource' in window
  codecOK,          \* MediaSource.isTypeSupported(mimeType)
  nSess,            \* MediaSource objects created so far
  msState,          \* per session, MediaSource: "none" | "closed" | "open"
                    \*   | "ended" | "detached" | "errored" (ended by a
                    \*   decode error; the element has an error)
  sbState,          \* per session, SourceBuffer: "none" | "idle" | "append"
                    \*   | "remove" (updating) | "aborted" (removed while
                    \*   updating, updateend pending) | "removed"
  bufStart,         \* per session, buffered.start(0)
  bufEnd,           \* per session, buffered.end(0); equal to start: no range
  wsState,          \* per session, WebSocket: "none" | "CONNECTING" | "OPEN"
                    \*   | "CLOSING" | "FAILING" | "CLOSED"
  videoSrc,         \* session whose MediaSource is video.src, 0: none
  videoPaused,      \* video.paused
  nSegs,            \* messages received so far; a segment is its number
  segBase,          \* history: nSegs at the last cleanup()
  submitted,        \* history: segments appendBuffer accepted since then
  clast             \* history: what the last client handler did

cvars == <<wsRef, mediaSourceRef, sourceBufferRef, queueRef, isAppendingRef,
           isConnected, isBuffering, error, stats, bytesReceivedRef,
           hasMSE, codecOK, nSess, msState, sbState, bufStart, bufEnd,
           wsState, videoSrc, videoPaused, nSegs, segBase, submitted, clast>>

vars == <<svars, cvars>>

Sessions == 1..MaxSessions

\* the constants of useStreamPlayer.ts, in half seconds
PlayThreshold == 1     \* bufferedSeconds > 0.5
EvictMinRange == 20    \* buffered.end(0) - buffered.start(0) > 10
EvictWindow   == 10    \* remove(start, start + 5)

\* what one completed append adds to the buffered range
SegDurations == {0, 1, 2, 21}

NoOp == [op |-> "none"]

\* ----------------------------------------------------------------- helpers
Range(s) == {s[i] : i \in DOMAIN s}

\* Set.prototype.delete on the insertion-ordered set
SetDelete(s, x) == SelectSeq(s, LAMBDA y : y # x)

\* Set.prototype.add on the insertion-ordered set
SetAdd(s, x) == IF x \in Range(s) THEN s ELSE Append(s, x)

NextPid == Cardinality({p \in Procs : proc[p] # "none"}) + 1

\* the processes that were spawned, have not exited and were not sent SIGTERM
LiveProcs == {p \in Procs : proc[p] = "live"}

\* a spawn failure is reported on the next tick, before any other event
ErrorPending == \E p \in Procs : proc[p] = "failing"

\* ------------------------------------------------------------ ScreenCapture
\* start(): effect on <<ffmpeg, isRunning, proc>>; outcome is what spawn() gave
Start(outcome) ==
  /\ startCalls' = 1
  /\ IF isRunning
       THEN UNCHANGED <<ffmpeg, isRunning, proc>>
       ELSE /\ NextPid \in Procs
            /\ proc' = [proc EXCEPT ![NextPid] = outcome]
            /\ ffmpeg' = NextPid
            /\ isRunning' = TRUE

\* stop(): kill('SIGTERM') reaches only a process that is still alive
Stop ==
  /\ stopCalls' = 1
  /\ IF ffmpeg # 0
       THEN /\ proc' = [proc EXCEPT ![ffmpeg] = IF @ = "live" THEN "killed" ELSE @]
            /\ ffmpeg' = 0
            /\ isRunning' = FALSE
       ELSE UNCHANGED <<ffmpeg, isRunning, proc>>

\* --------------------------------------------------------------------- hub
\* clients.forEach(client => { if (OPEN) client.send(chunk) }) from position i;
\* thrower is the connection whose send() throws (0: none does).  The
\* exception leaves forEach, so the connections after it are not visited.
\* (mutant) the iteration ends at the first connection that is not open
RECURSIVE BroadcastUntilClosed(_, _, _, _)
BroadcastUntilClosed(i, snt, idx, thrower) ==
  IF i > Len(clients) THEN [sent |-> snt, threw |-> FALSE]
  ELSE IF readyState[clients[i]] = "OPEN"
    THEN IF clients[i] = thrower
           THEN [sent |-> snt, threw |-> TRUE]
           ELSE BroadcastUntilClosed(i + 1,
                  [snt EXCEPT ![clients[i]] = Append(@, idx)], idx, thrower)
    ELSE [sent |-> snt, threw |-> FALSE]

RECURSIVE Broadcast(_, _, _, _)
Broadcast(i, snt, idx, thrower) ==
  IF i > Len(clients) THEN [sent |-> snt, threw |-> FALSE]
  ELSE IF readyState[clients[i]] = "OPEN"
    THEN IF clients[i] = thrower
           THEN [sent |-> snt, threw |-> TRUE]
           ELSE Broadcast(i + 1, [snt EXCEPT ![clients[i]] = Append(@, idx)],
                          idx, thrower)
    ELSE Broadcast(i + 1, snt, idx, thrower)

\* (mutant) the first-client test looks at the set instead of isCapturing
JoinStartsOnEmpty(c, outcome) ==
  /\ UNCHANGED cvars
  /\ serverUp /\ ~ErrorPending
  /\ readyState[c] = "new"
  /\ \A d \in Conns : d < c => readyState[d] # "new"
  /\ Cardinality({d \in Conns : readyState[d] \in {"OPEN", "CLOSING"}}) < MaxOpen
  /\ readyState' = [readyState EXCEPT ![c] = "OPEN"]
  /\ clients' = SetAdd(clients, c)
  /\ IF clients = <<>>
       THEN Start(outcome) /\ isCapturing' = TRUE
       ELSE /\ outcome = "live"
            /\ startCalls' = 0
            /\ UNCHANGED <<ffmpeg, isRunning, proc, isCapturing>>
  /\ joinedAt' = [joinedAt EXCEPT ![c] = Len(emitLog)]
  /\ last' = [op |-> "join", wasEmpty |-> clients = <<>>,
              wasCapturing |-> isCapturing,
              starts |-> startCalls']
  /\ UNCHANGED <<serverUp, emitLog, sent>>
  /\ stopCalls' = 0

\* wss.on('connection'): clients.add(ws); if (!isCapturing) start()
Join(c, outcome) ==
  /\ UNCHANGED cvars
  /\ serverUp /\ ~ErrorPending
  /\ readyState[c] = "new"
  /\ \A d \in Conns : d < c => readyState[d] # "new"
  /\ Cardinality({d \in Conns : readyState[d] \in {"OPEN", "CLOSING"}}) < MaxOpen
  /\ readyState' = [readyState EXCEPT ![c] = "OPEN"]
  /\ clients' = SetAdd(clients, c)
  /\ IF ~isCapturing
       THEN Start(outcome) /\ isCapturing' = TRUE
       ELSE /\ outcome = "live"
            /\ startCalls' = 0
            /\ UNCHANGED <<ffmpeg, isRunning, proc, isCapturing>>
  /\ joinedAt' = [joinedAt EXCEPT ![c] = Len(emitLog)]
  /\ last' = [op |-> "join", wasEmpty |-> clients = <<>>,
              wasCapturing |-> isCapturing,
              starts |-> startCalls']
  /\ UNCHANGED <<serverUp, emitLog, sent>>
  /\ stopCalls' = 0

\* the peer closes or the socket ends: readyState leaves OPEN, 'close' follows
ConnEnd(c) ==
  /\ UNCHANGED cvars
  /\ serverUp /\ ~ErrorPending
  /\ readyState[c] = "OPEN"
  /\ readyState' = [readyState EXCEPT ![c] = "CLOSING"]
  /\ last' = NoOp
  /\ UNCHANGED <<clients, isCapturing, ffmpeg, isRunning, proc, serverUp,
                 emitLog, sent, joinedAt>>
  /\ startCalls' = 0
  /\ stopCalls' = 0

\* ws.on('close')
OnWsClose(c) ==
  /\ UNCHANGED cvars
  /\ serverUp /\ ~ErrorPending
  /\ readyState[c] = "CLOSING"
  /\ readyState' = [readyState EXCEPT ![c] = "CLOSED"]
  /\ clients' = SetDelete(clients, c)
  /\ IF clients' = <<>> /\ isCapturing
       THEN Stop /\ isCapturing' = FALSE
       ELSE stopCalls' = 0 /\ UNCHANGED <<ffmpeg, isRunning, proc, isCapturing>>
  /\ last' = [op |-> "leave", ev |-> "close",
              drained |-> clients # <<>> /\ clients' = <<>>,
              wasRunning |-> isRunning,
              stops |-> stopCalls',
              kills |-> IF stopCalls' = 1 /\ ffmpeg # 0 THEN 1 ELSE 0]
  /\ UNCHANGED <<serverUp, emitLog, sent, joinedAt>>
  /\ startCalls' = 0

\* ws.on('error'): the WebSocket sets readyState to CLOSING and emits 'error'
\* in the same tick; 'close' follows later
OnWsError(c) ==
  /\ UNCHANGED cvars
  /\ serverUp /\ ~ErrorPending
  /\ readyState[c] = "OPEN"
  /\ readyState' = [readyState EXCEPT ![c] = "CLOSING"]
  /\ clients' = SetDelete(clients, c)
  /\ startCalls' = 0
  /\ stopCalls' = 0
  /\ UNCHANGED <<isCapturing, ffmpeg, isRunning, proc, serverUp,
                 emitLog, sent, joinedAt>>
  /\ last' = [op |-> "leave", ev |-> "error",
              drained |-> clients # <<>> /\ clients' = <<>>,
              wasRunning |-> isRunning,
              stops |-> stopCalls',
              kills |-> 0]

\* ffmpeg.stdout.on('data') -> emit('data') -> screenCapture.on('data').
\* A process that was sent SIGTERM keeps its listeners until it exits.
\* An exception thrown by send() is uncaught: the node process dies and every
\* socket it holds is closed with it.
ProcData(p, thrower) ==
  /\ UNCHANGED cvars
  /\ serverUp /\ ~ErrorPending
  /\ proc[p] \in {"live", "killed"}
  /\ Len(emitLog) < MaxData
  /\ thrower \in {0} \cup {c \in Range(clients) : readyState[c] = "OPEN"}
  /\ emitLog' = Append(emitLog, p)
  /\ LET r == Broadcast(1, sent, Len(emitLog) + 1, thrower) IN
       /\ sent' = r.sent
       /\ serverUp' = ~r.threw
       /\ readyState' = IF r.threw
                          THEN [c \in Conns |-> IF readyState[c] = "new"
                                                  THEN "new" ELSE "CLOSED"]
                          ELSE readyState
       /\ last' = [op |-> "data", thrower |-> thrower,
                   open |-> {c \in Range(clients) : readyState[c] = "OPEN"},
                   closed |-> {c \in Range(clients) : readyState[c] # "OPEN"},
                   got |-> {c \in Conns : r.sent[c] # sent[c]}]
  /\ UNCHANGED <<clients, isCapturing, ffmpeg, isRunning, proc, joinedAt>>
  /\ startCalls' = 0
  /\ stopCalls' = 0

\* ffmpeg.on('error') -> isRunning = false; emit('error') -> the hub logs
ProcError(p) ==
  /\ UNCHANGED cvars
  /\ serverUp
  /\ proc[p] = "failing"
  /\ proc' = [proc EXCEPT ![p] = "failed"]
  /\ isRunning' = FALSE
  /\ last' = [op |-> "procerror"]
  /\ UNCHANGED <<clients, isCapturing, ffmpeg, readyState, serverUp,
                 emitLog, sent, joinedAt>>
  /\ startCalls' = 0
  /\ stopCalls' = 0

\* ffmpeg.on('close') -> isRunning = false; emit('close') -> isCapturing = false.
\* The process exits on its own, after SIGTERM, or after a failed spawn.
ProcClose(p) ==
  /\ UNCHANGED cvars
  /\ serverUp /\ ~ErrorPending
  /\ proc[p] \in {"live", "killed", "failed"}
  /\ proc' = [proc EXCEPT ![p] = "exited"]
  /\ isRunning' = FALSE
  /\ isCapturing' = FALSE
  /\ last' = [op |-> "procclose"]
  /\ UNCHANGED <<clients, ffmpeg, readyState, serverUp, emitLog, sent, joinedAt>>
  /\ startCalls' = 0
  /\ stopCalls' = 0

\* SIGINT / SIGTERM: screenCapture.stop(); wss.close(); process.exit(0)
Shutdown ==
  /\ UNCHANGED cvars
  /\ serverUp /\ ~ErrorPending
  /\ Stop
  /\ serverUp' = FALSE
  /\ readyState' = [c \in Conns |-> IF readyState[c] = "new"
                                      THEN "new" ELSE "CLOSED"]
  /\ last' = [op |-> "shutdown", wasRunning |-> isRunning,
              stops |-> stopCalls',
              kills |-> IF ffmpeg # 0 THEN 1 ELSE 0]
  /\ UNCHANGED <<clients, isCapturing, emitLog, sent, joinedAt>>
  /\ startCalls' = 0

InitServer ==
  /\ clients = <<>>
  /\ isCapturing = FALSE
  /\ ffmpeg = 0
  /\ isRunning = FALSE
  /\ proc = [p \in Procs |-> "none"]
  /\ readyState = [c \in Conns |-> "new"]
  /\ serverUp = TRUE
  /\ emitLog = <<>>
  /\ sent = [c \in Conns |-> <<>>]
  /\ joinedAt = [c \in Conns |-> 0]
  /\ last = NoOp
  /\ startCalls = 0
  /\ stopCalls = 0

NextServer ==
  \/ \E c \in Conns, o \in {"live", "failing"} : Join(c, o)
  \/ \E c \in Conns : ConnEnd(c)
  \/ \E c \in Conns : OnWsClose(c)
  \/ \E c \in Conns : OnWsError(c)
  \/ \E p \in Procs, t \in {0} \cup Conns : ProcData(p, t)
  \/ \E p \in Procs : ProcError(p)
  \/ \E p \in Procs : ProcClose(p)
  \/ Shutdown

\* ================================================================== client

CNoOp == [op |-> "none", sess |-> 0, appendCalled |-> FALSE,
          pending |-> FALSE, threw |-> FALSE, played |-> FALSE]

\* the segments received since the last cleanup(), in arrival order
Arrived == [i \in 1..(nSegs - segBase) |-> segBase + i]

\* (mutant) appendNextChunk() without the test of sourceBuffer.updating:
\* appendBuffer on an updating SourceBuffer raises InvalidStateError
AppendNextChunkNoUpdatingTest(q, appending, sbs, bs, be, sub, throws) ==
  LET sb == sourceBufferRef
      same == [queue |-> q, isAppending |-> appending, sbState |-> sbs,
               submitted |-> sub, appendCalled |-> FALSE, pending |-> FALSE,
               threw |-> FALSE]
      busy == sbs[sb] \in {"append", "remove"}
  IN
  IF sb = 0 \/ appending \/ q = <<>> THEN same
  ELSE IF ~throws /\ ~busy
    THEN [queue |-> Tail(q), isAppending |-> TRUE,
          sbState |-> [sbs EXCEPT ![sb] = "append"],
          submitted |-> Append(sub, Head(q)),
          appendCalled |-> TRUE, pending |-> busy, threw |-> FALSE]
    ELSE [queue |-> Tail(q), isAppending |-> FALSE,
          sbState |-> IF ~busy /\ be[sb] > bs[sb]
                         /\ be[sb] - bs[sb] > EvictMinRange
                        THEN [sbs EXCEPT ![sb] = "remove"]
                        ELSE sbs,
          submitted |-> sub,
          appendCalled |-> TRUE, pending |-> busy, threw |-> TRUE]

\* (mutant) appendNextChunk() whose catch branch evicts whenever a buffered
\* range exists, whatever its length
AppendNextChunkEvictsAnyRange(q, appending, sbs, bs, be, sub, throws) ==
  LET sb == sourceBufferRef
      same == [queue |-> q, isAppending |-> appending, sbState |-> sbs,
               submitted |-> sub, appendCalled |-> FALSE, pending |-> FALSE,
               threw |-> FALSE]
  IN
  IF sb = 0 \/ appending \/ q = <<>> THEN same
  ELSE IF sbs[sb] \in {"append", "remove"} THEN same
  ELSE IF ~throws
    THEN [queue |-> Tail(q), isAppending |-> TRUE,
          sbState |-> [sbs EXCEPT ![sb] = "append"],
          submitted |-> Append(sub, Head(q)),
          appendCalled |-> TRUE,
          pending |-> sbs[sb] \in {"append", "remove"}, threw |-> FALSE]
    ELSE [queue |-> Tail(q), isAppending |-> FALSE,
          sbState |-> IF be[sb] > bs[sb]
                        THEN [sbs EXCEPT ![sb] = "remove"]
                        ELSE sbs,
          submitted |-> sub,
          appendCalled |-> TRUE,
          pending |-> sbs[sb] \in {"append", "remove"}, threw |-> TRUE]

\* appendNextChunk(), on the values the calling handler has produced so far.
\* throws: appendBuffer raises (QuotaExceededError).  The result gives the new
\* queue, flag and SourceBuffer states and what was done.
AppendNextChunk(q, appending, sbs, bs, be, sub, throws) ==
  LET sb == sourceBufferRef
      same == [queue |-> q, isAppending |-> appending, sbState |-> sbs,
               submitted |-> sub, appendCalled |-> FALSE, pending |-> FALSE,
               threw |-> FALSE]
  IN
  IF sb = 0 \/ appending \/ q = <<>> THEN same
  ELSE IF sbs[sb] \in {"append", "remove"} THEN same
  ELSE IF ~throws
    THEN [queue |-> Tail(q), isAppending |-> TRUE,
          sbState |-> [sbs EXCEPT ![sb] = "append"],
          submitted |-> Append(sub, Head(q)),
          appendCalled |-> TRUE,
          pending |-> sbs[sb] \in {"append", "remove"}, threw |-> FALSE]
    ELSE [queue |-> Tail(q), isAppending |-> FALSE,
          sbState |-> IF be[sb] > bs[sb] /\ be[sb] - bs[sb] > EvictMinRange
                        THEN [sbs EXCEPT ![sb] = "remove"]
                        ELSE sbs,
          submitted |-> sub,
          appendCalled |-> TRUE,
          pending |-> sbs[sb] \in {"append", "remove"}, threw |-> TRUE]

\* WebSocket.close()
WsClose(st) ==
  CASE st = "CONNECTING" -> "FAILING"
    [] st = "OPEN"       -> "CLOSING"
    [] OTHER             -> st

\* cleanup(): endOfStream() throws while a SourceBuffer of the MediaSource is
\* updating, and the exception is ignored
Cleanup ==
  /\ wsState' = IF wsRef # 0 THEN [wsState EXCEPT ![wsRef] = WsClose(@)]
                             ELSE wsState
  /\ wsRef' = 0
  /\ msState' = IF /\ mediaSourceRef # 0
                   /\ msState[mediaSourceRef] = "open"
                   /\ sbState[mediaSourceRef] \notin {"append", "remove"}
                  THEN [msState EXCEPT ![mediaSourceRef] = "ended"]
                  ELSE msState
  /\ mediaSourceRef' = 0
  /\ sourceBufferRef' = 0
  /\ queueRef' = <<>>
  /\ isAppendingRef' = FALSE
  /\ bytesReceivedRef' = 0
  /\ isConnected' = FALSE
  /\ isBuffering' = TRUE
  /\ stats' = [bufferedSeconds |-> 0, bytesReceived |-> 0]
  /\ segBase' = nSegs
  /\ submitted' = <<>>

\* disconnect()
Disconnect ==
  /\ UNCHANGED svars
  /\ Cleanup
  /\ clast' = [CNoOp EXCEPT !.op = "disconnect"]
  /\ UNCHANGED <<error, hasMSE, codecOK, nSess, sbState, bufStart, bufEnd,
                 videoSrc, videoPaused, nSegs>>

\* connect(): cleanup(), setError(null), then a new MediaSource becomes
\* video.src.  Loading the new source detaches the MediaSource that was
\* attached: its SourceBuffer is removed, a running update is aborted (its
\* updateend is still fired) and the element is paused again.
Connect ==
  /\ UNCHANGED svars
  /\ wsState' = IF wsRef # 0 THEN [wsState EXCEPT ![wsRef] = WsClose(@)]
                             ELSE wsState
  /\ wsRef' = 0
  /\ sourceBufferRef' = 0
  /\ queueRef' = <<>>
  /\ isAppendingRef' = FALSE
  /\ bytesReceivedRef' = 0
  /\ isConnected' = FALSE
  /\ isBuffering' = TRUE
  /\ stats' = [bufferedSeconds |-> 0, bytesReceived |-> 0]
  /\ segBase' = nSegs
  /\ submitted' = <<>>
  /\ IF ~hasMSE
       THEN /\ error' = "MediaSource API not supported in this browser"
            /\ mediaSourceRef' = 0
            /\ msState' = IF /\ mediaSourceRef # 0
                             /\ msState[mediaSourceRef] = "open"
                             /\ sbState[mediaSourceRef] \notin {"append", "remove"}
                            THEN [msState EXCEPT ![mediaSourceRef] = "ended"]
                            ELSE msState
            /\ UNCHANGED <<nSess, sbState, videoSrc, videoPaused>>
       ELSE /\ nSess < MaxSessions
            /\ error' = "null"
            /\ nSess' = nSess + 1
            /\ mediaSourceRef' = nSess + 1
            /\ msState' = [k \in Sessions |->
                             IF k = nSess + 1 THEN "closed"
                             ELSE IF k = videoSrc THEN "detached"
                             ELSE msState[k]]
            /\ sbState' = [k \in Sessions |->
                             IF k # videoSrc THEN sbState[k]
                             ELSE IF sbState[k] \in {"append", "remove"}
                               THEN "aborted"
                             ELSE IF sbState[k] = "idle" THEN "removed"
                             ELSE sbState[k]]
            /\ videoSrc' = nSess + 1
            /\ videoPaused' = TRUE
  /\ clast' = [CNoOp EXCEPT !.op = "connect"]
  /\ UNCHANGED <<hasMSE, codecOK, bufStart, bufEnd, nSegs>>

\* (mutant) 'sourceopen' listener without the isTypeSupported test
SourceOpenNoCodecCheck(k) ==
  /\ UNCHANGED svars
  /\ msState[k] = "closed" /\ videoSrc = k
  /\ msState' = [msState EXCEPT ![k] = "open"]
  /\ IF FALSE
       THEN /\ error' = "Codec not supported"
            /\ UNCHANGED <<sbState, sourceBufferRef, wsState, wsRef>>
       ELSE /\ sbState' = [sbState EXCEPT ![k] = "idle"]
            /\ sourceBufferRef' = k
            /\ wsState' = [wsState EXCEPT ![k] = "CONNECTING"]
            /\ wsRef' = k
            /\ UNCHANGED error
  /\ clast' = [CNoOp EXCEPT !.op = "sourceopen", !.sess = k]
  /\ UNCHANGED <<mediaSourceRef, queueRef, isAppendingRef, isConnected,
                 isBuffering, stats, bytesReceivedRef, hasMSE, codecOK, nSess,
                 bufStart, bufEnd, videoSrc, videoPaused, nSegs, segBase,
                 submitted>>

\* mediaSource 'sourceopen' listener of session k; the event is fired when the
\* element attaches the MediaSource that is its src
SourceOpen(k) ==
  /\ UNCHANGED svars
  /\ msState[k] = "closed" /\ videoSrc = k
  /\ msState' = [msState EXCEPT ![k] = "open"]
  /\ IF ~codecOK
       THEN /\ error' = "Codec not supported"
            /\ UNCHANGED <<sbState, sourceBufferRef, wsState, wsRef>>
       ELSE /\ sbState' = [sbState EXCEPT ![k] = "idle"]
            /\ sourceBufferRef' = k
            /\ wsState' = [wsState EXCEPT ![k] = "CONNECTING"]
            /\ wsRef' = k
            /\ UNCHANGED error
  /\ clast' = [CNoOp EXCEPT !.op = "sourceopen", !.sess = k]
  /\ UNCHANGED <<mediaSourceRef, queueRef, isAppendingRef, isConnected,
                 isBuffering, stats, bytesReceivedRef, hasMSE, codecOK, nSess,
                 bufStart, bufEnd, videoSrc, videoPaused, nSegs, segBase,
                 submitted>>

\* sourceBuffer 'error' listener of session k: the data of the running append
\* cannot be decoded.  The listener only logs.  The browser fires updateend
\* next and ends the MediaSource with a decode error, after which appendBuffer
\* raises InvalidStateError.
SbError(k) ==
  /\ UNCHANGED svars
  /\ sbState[k] = "append" /\ msState[k] = "open"
  /\ msState' = [msState EXCEPT ![k] = "errored"]
  /\ clast' = [CNoOp EXCEPT !.op = "sberror", !.sess = k]
  /\ UNCHANGED <<wsRef, mediaSourceRef, sourceBufferRef, queueRef,
                 isAppendingRef, isConnected, isBuffering, error, stats,
                 bytesReceivedRef, hasMSE, codecOK, nSess, sbState, bufStart,
                 bufEnd, wsState, videoSrc, videoPaused, nSegs, segBase,
                 submitted>>

\* mediaSource 'error' listener of session k, for an 'error' event dispatched
\* at the MediaSource of a failed pipeline
MsError(k) ==
  /\ UNCHANGED svars
  /\ msState[k] = "errored"
  /\ error' = "MediaSource error"
  /\ clast' = [CNoOp EXCEPT !.op = "mserror", !.sess = k]
  /\ UNCHANGED <<wsRef, mediaSourceRef, sourceBufferRef, queueRef,
                 isAppendingRef, isConnected, isBuffering, stats,
                 bytesReceivedRef, hasMSE, codecOK, nSess, msState, sbState,
                 bufStart, bufEnd, wsState, videoSrc, videoPaused, nSegs,
                 segBase, submitted>>

\* (mutant) 'updateend' listener that clears the flag but does not call
\* appendNextChunk()
UpdateEndNoDrain(k, d, playOK, throws) ==
  /\ UNCHANGED svars
  /\ sbState[k] \in {"append", "remove", "aborted"}
  /\ IF sbState[k] = "aborted"
       THEN /\ d = 0 /\ playOK /\ ~throws
            /\ sbState' = [sbState EXCEPT ![k] = "removed"]
            /\ isAppendingRef' = FALSE
            /\ clast' = [CNoOp EXCEPT !.op = "updateend", !.sess = k]
            /\ UNCHANGED <<bufStart, bufEnd, stats, videoPaused, isBuffering,
                           queueRef, submitted>>
       ELSE
         LET nbs == IF sbState[k] = "remove"
                      THEN [bufStart EXCEPT ![k] =
                              IF @ + EvictWindow < bufEnd[k]
                                THEN @ + EvictWindow ELSE bufEnd[k]]
                      ELSE bufStart
             nbe == IF sbState[k] = "append"
                      THEN [bufEnd EXCEPT ![k] = @ + d]
                      ELSE bufEnd
             secs == nbe[k] - nbs[k]
             has == nbe[k] > nbs[k]
             play == has /\ secs > PlayThreshold /\ videoPaused
             r == [queue |-> queueRef, isAppending |-> FALSE,
                   sbState |-> [sbState EXCEPT ![k] = "idle"],
                   submitted |-> submitted, appendCalled |-> FALSE,
                   pending |-> FALSE, threw |-> FALSE]
         IN
         /\ (sbState[k] = "remove" \/ msState[k] = "errored") => d = 0
         /\ ~play => playOK
         /\ ~r.appendCalled => ~throws
         /\ (r.appendCalled /\ msState[sourceBufferRef] = "errored") => throws
         /\ bufStart' = nbs
         /\ bufEnd' = nbe
         /\ stats' = IF has
                       THEN [bufferedSeconds |-> secs,
                             bytesReceived |-> bytesReceivedRef]
                       ELSE stats
         /\ videoPaused' = IF play /\ playOK THEN FALSE ELSE videoPaused
         /\ isBuffering' = IF play THEN FALSE ELSE isBuffering
         /\ queueRef' = r.queue
         /\ isAppendingRef' = r.isAppending
         /\ sbState' = r.sbState
         /\ submitted' = r.submitted
         /\ clast' = [op |-> "updateend", sess |-> k,
                      appendCalled |-> r.appendCalled,
                      pending |-> r.pending, threw |-> r.threw,
                      played |-> play]
  /\ UNCHANGED <<wsRef, mediaSourceRef, sourceBufferRef, isConnected, error,
                 bytesReceivedRef, hasMSE, codecOK, nSess, msState, wsState,
                 videoSrc, nSegs, segBase>>

\* sourceBuffer 'updateend' listener of session k.  d: what a completed append
\* added to the buffered range; playOK: video.play() is allowed and clears
\* paused; throws: for the appendBuffer appendNextChunk may call.
\* Reading buffered of a SourceBuffer that was removed from its MediaSource
\* raises, which ends the listener after its first statement.
UpdateEnd(k, d, playOK, throws) ==
  /\ UNCHANGED svars
  /\ sbState[k] \in {"append", "remove", "aborted"}
  /\ IF sbState[k] = "aborted"
       THEN /\ d = 0 /\ playOK /\ ~throws
            /\ sbState' = [sbState EXCEPT ![k] = "removed"]
            /\ isAppendingRef' = FALSE
            /\ clast' = [CNoOp EXCEPT !.op = "updateend", !.sess = k]
            /\ UNCHANGED <<bufStart, bufEnd, stats, videoPaused, isBuffering,
                           queueRef, submitted>>
       ELSE
         LET nbs == IF sbState[k] = "remove"
                      THEN [bufStart EXCEPT ![k] =
                              IF @ + EvictWindow < bufEnd[k]
                                THEN @ + EvictWindow ELSE bufEnd[k]]
                      ELSE bufStart
             nbe == IF sbState[k] = "append"
                      THEN [bufEnd EXCEPT ![k] = @ + d]
                      ELSE bufEnd
             secs == nbe[k] - nbs[k]
             has == nbe[k] > nbs[k]
             play == has /\ secs > PlayThreshold /\ videoPaused
             r == AppendNextChunk(queueRef, FALSE,
                                  [sbState EXCEPT ![k] = "idle"],
                                  nbs, nbe, submitted, throws)
         IN
         /\ (sbState[k] = "remove" \/ msState[k] = "errored") => d = 0
         /\ ~play => playOK
         /\ ~r.appendCalled => ~throws
         /\ (r.appendCalled /\ msState[sourceBufferRef] = "errored") => throws
         /\ bufStart' = nbs
         /\ bufEnd' = nbe
         /\ stats' = IF has
                       THEN [bufferedSeconds |-> secs,
                             bytesReceived |-> bytesReceivedRef]
                       ELSE stats
         /\ videoPaused' = IF play /\ playOK THEN FALSE ELSE videoPaused
         /\ isBuffering' = IF play THEN FALSE ELSE isBuffering
         /\ queueRef' = r.queue
         /\ isAppendingRef' = r.isAppending
         /\ sbState' = r.sbState
         /\ submitted' = r.submitted
         /\ clast' = [op |-> "updateend", sess |-> k,
                      appendCalled |-> r.appendCalled,
                      pending |-> r.pending, threw |-> r.threw,
                      played |-> play]
  /\ UNCHANGED <<wsRef, mediaSourceRef, sourceBufferRef, isConnected, error,
                 bytesReceivedRef, hasMSE, codecOK, nSess, msState, wsState,
                 videoSrc, nSegs, segBase>>

\* ws.onopen of session k
WsOpen(k) ==
  /\ UNCHANGED svars
  /\ wsState[k] = "CONNECTING"
  /\ wsState' = [wsState EXCEPT ![k] = "OPEN"]
  /\ isConnected' = TRUE
  /\ clast' = [CNoOp EXCEPT !.op = "wsopen", !.sess = k]
  /\ UNCHANGED <<wsRef, mediaSourceRef, sourceBufferRef, queueRef,
                 isAppendingRef, isBuffering, error, stats, bytesReceivedRef,
                 hasMSE, codecOK, nSess, msState, sbState, bufStart, bufEnd,
                 videoSrc, videoPaused, nSegs, segBase, submitted>>

\* ws.onmessage of session k; messages are delivered only while OPEN
WsMessage(k, throws) ==
  /\ UNCHANGED svars
  /\ wsState[k] = "OPEN"
  /\ nSegs < MaxSegs
  /\ nSegs' = nSegs + 1
  /\ bytesReceivedRef' = bytesReceivedRef + SegBytes
  /\ LET r == AppendNextChunk(Append(queueRef, nSegs + 1), isAppendingRef,
                              sbState, bufStart, bufEnd, submitted, throws)
     IN /\ ~r.appendCalled => ~throws
        /\ (r.appendCalled /\ msState[sourceBufferRef] = "errored") => throws
        /\ queueRef' = r.queue
        /\ isAppendingRef' = r.isAppending
        /\ sbState' = r.sbState
        /\ submitted' = r.submitted
        /\ clast' = [op |-> "message", sess |-> k,
                     appendCalled |-> r.appendCalled,
                     pending |-> r.pending, threw |-> r.threw,
                     played |-> FALSE]
  /\ UNCHANGED <<wsRef, mediaSourceRef, sourceBufferRef, isConnected,
                 isBuffering, error, stats, hasMSE, codecOK, nSess, msState,
                 bufStart, bufEnd, wsState, videoSrc, videoPaused, segBase>>

\* the connection of session k is closed: ws.onerror when it failed, then
\* ws.onclose, both fired by the same task.  A connection closed by close()
\* before it was established counts as failed.
WsClosed(k, failed) ==
  /\ UNCHANGED svars
  /\ wsState[k] \in {"CONNECTING", "OPEN", "CLOSING", "FAILING"}
  /\ wsState[k] \in {"CONNECTING", "FAILING"} => failed
  /\ wsState[k] = "CLOSING" => ~failed
  /\ wsState' = [wsState EXCEPT ![k] = "CLOSED"]
  /\ error' = IF failed THEN "WebSocket connection error" ELSE error
  /\ isConnected' = FALSE
  /\ clast' = [CNoOp EXCEPT !.op = IF failed THEN "wserror" ELSE "wsclose",
                            !.sess = k]
  /\ UNCHANGED <<wsRef, mediaSourceRef, sourceBufferRef, queueRef,
                 isAppendingRef, isBuffering, stats, bytesReceivedRef,
                 hasMSE, codecOK, nSess, msState, sbState, bufStart, bufEnd,
                 videoSrc, videoPaused, nSegs, segBase, submitted>>

\* <video autoPlay>: the element starts playing on its own once its source
\* has buffered data
VideoAutoPlay ==
  /\ UNCHANGED svars
  /\ videoPaused
  /\ videoSrc # 0
  /\ msState[videoSrc] \in {"open", "ended"}
  /\ bufEnd[videoSrc] > bufStart[videoSrc]
  /\ videoPaused' = FALSE
  /\ clast' = [CNoOp EXCEPT !.op = "autoplay"]
  /\ UNCHANGED <<wsRef, mediaSourceRef, sourceBufferRef, queueRef,
                 isAppendingRef, isConnected, isBuffering, error, stats,
                 bytesReceivedRef, hasMSE, codecOK, nSess, msState, sbState,
                 bufStart, bufEnd, wsState, videoSrc, nSegs, segBase,
                 submitted>>

InitClient ==
  /\ wsRef = 0
  /\ mediaSourceRef = 0
  /\ sourceBufferRef = 0
  /\ queueRef = <<>>
  /\ isAppendingRef = FALSE
  /\ isConnected = FALSE
  /\ isBuffering = TRUE
  /\ error = "null"
  /\ stats = [bufferedSeconds |-> 0, bytesReceived |-> 0]
  /\ bytesReceivedRef = 0
  /\ hasMSE \in BOOLEAN
  /\ codecOK \in BOOLEAN
  /\ nSess = 0
  /\ msState = [k \in Sessions |-> "none"]
  /\ sbState = [k \in Sessions |-> "none"]
  /\ bufStart = [k \in Sessions |-> 0]
  /\ bufEnd = [k \in Sessions |-> 0]
  /\ wsState = [k \in Sessions |-> "none"]
  /\ videoSrc = 0
  /\ videoPaused = TRUE
  /\ nSegs = 0
  /\ segBase = 0
  /\ submitted = <<>>
  /\ clast = CNoOp

NextClient ==
  \/ Connect
  \/ Disconnect
  \/ \E k \in Sessions : SourceOpen(k)
  \/ \E k \in Sessions, d \in SegDurations, ok \in BOOLEAN, t \in BOOLEAN :
       UpdateEnd(k, d, ok, t)
  \/ \E k \in Sessions : SbError(k)
  \/ \E k \in Sessions : MsError(k)
  \/ \E k \in Sessions : WsOpen(k)
  \/ \E k \in Sessions, t \in BOOLEAN : WsMessage(k, t)
  \/ \E k \in Sessions, f \in BOOLEAN : WsClosed(k, f)
  \/ VideoAutoPlay

\* ------------------------------------------------------------ specifications
\* the server alone, beside a client that has not been started
Init == InitServer /\ InitClient /\ hasMSE /\ codecOK
Next == NextServer
Spec == Init /\ [][Next]_vars

\* the client alone, beside a server nobody has connected to
InitC == InitServer /\ InitClient
SpecClient == InitC /\ [][NextClient]_vars

\* the client when the browser fires the completion callback of every update
\* it has accepted; nothing obliges the transport to deliver more messages or
\* the user to press a button
SpecClientFair ==
  SpecClient /\ WF_vars(\E k \in Sessions, d \in SegDurations,
                           ok \in BOOLEAN, t \in BOOLEAN : UpdateEnd(k, d, ok, t))

\* ============================================================ server claims

\* C1: at most one producer process that was spawned and has neither exited
\* nor been sent a termination request exists at any time.
C1_SingleLiveProducer == Cardinality(LiveProcs) <= 1

C3_DrainStops ==
  last.op = "leave" =>
    /\ (last.drained /\ last.wasRunning => last.stops = 1)
    /\ ~(clients = <<>> /\ LiveProcs # {})

\* C4: in the fan-out of one segment every open subscriber other than a
\* subscriber whose send throws receives the segment, and a subscriber whose
\* send threw or that was found closed is no longer in the subscriber set.
C4_FanoutIsolated ==
  last.op = "data" =>
    /\ (last.open \ {last.thrower}) \subseteq last.got
    /\ \A b \in last.closed \cup (last.open \cap {last.thrower}) :
         b \notin Range(clients)

\* C5: what is sent to a subscriber is a subsequence of the emission order
\* (strictly increasing positions, none twice), and a subscriber that is
\* still open has been sent every segment emitted since its join.
C5_OrderedComplete ==
  \A c \in Conns :
    /\ \A i \in DOMAIN sent[c] :
         /\ sent[c][i] \in (joinedAt[c] + 1)..Len(emitLog)
         /\ i > 1 => sent[c][i - 1] < sent[c][i]
    /\ readyState[c] = "OPEN" =>
         sent[c] = [i \in 1..(Len(emitLog) - joinedAt[c]) |-> joinedAt[c] + i]

\* C5 witness: one open subscriber got two segments in order while a later
\* joiner got only the later one.
C5_Witness ==
  \E c, d \in Conns :
    /\ readyState[c] = "OPEN" /\ readyState[d] = "OPEN"
    /\ sent[c] = <<1, 2>> /\ sent[d] = <<2>>

\* ============================================================ client claims

\* C6: appendNextChunk never calls appendBuffer on a SourceBuffer whose
\* previous append or remove has not fired its completion callback.
C6_OneUpdateAtATime ==
  /\ clast.appendCalled => ~clast.pending
  /\ isAppendingRef /\ sourceBufferRef # 0 => sbState[sourceBufferRef] = "append"

\* C6 witness: a message arrived while the eviction started by a failed
\* append was still running, and was queued without an appendBuffer call.
C6_Witness ==
  /\ clast.op = "message" /\ ~clast.appendCalled
  /\ sourceBufferRef # 0 /\ sbState[sourceBufferRef] = "remove"
  /\ ~isAppendingRef /\ queueRef # <<>>

\* C7: the segments accepted by the decode buffer followed by the segments
\* still queued are exactly the segments that arrived, in arrival order.
C7_NothingDropped == submitted \o queueRef = Arrived

\* C8: after an append raised an error while later segments were queued, the
\* queue is eventually drained into the decode buffer (or the session is torn
\* down), also when no further message arrives.
C8_ErrorThenDrain ==
  (clast.threw /\ queueRef # <<>> /\ sourceBufferRef # 0)
    ~> (queueRef = <<>> \/ sourceBufferRef = 0)

\* C9: after disconnect() the client is Disconnected and not Error, the
\* transport is closed, the queue empty, the append flag cleared and both
\* statistics zero.
C9_DisconnectResets ==
  clast.op = "disconnect" =>
    /\ ~isConnected
    /\ error = "null"
    /\ wsRef = 0
    /\ \A k \in Sessions : wsState[k] \notin {"CONNECTING", "OPEN"}
    /\ queueRef = <<>>
    /\ ~isAppendingRef
    /\ stats = [bufferedSeconds |-> 0, bytesReceived |-> 0]

\* C10: a sourceopen, updateend, transport open, message or close event of a
\* session that is not the active one changes neither the connection state,
\* the buffering flag, the statistics, the queue nor the append flag, and
\* opens no transport connection.
C10_StaleCallbacksNoOp ==
  [][(/\ clast'.op \in {"sourceopen", "updateend", "wsopen", "message",
                        "wserror", "wsclose"}
      /\ clast'.sess # mediaSourceRef)
     => /\ UNCHANGED <<isConnected, isBuffering, stats, queueRef,
                       isAppendingRef>>
        /\ \A j \in Sessions :
             wsState'[j] = "CONNECTING" => wsState[j] = "CONNECTING"]_vars

\* ===================================================== server claims, part 2

\* C12: after the producer's 'error' event (failed spawn) or 'close' event
\* (exit) has been handled the capture session is Idle at the manager and at
\* the hub and the handler has not called start(); a join leaves a producer
\* running or just spawned (it invoked start() if none was).
C12_FailureForcesIdle ==
  /\ last.op \in {"procerror", "procclose"} =>
       ~isRunning /\ ~isCapturing /\ startCalls = 0
  /\ last.op = "join" => (LiveProcs # {} \/ ErrorPending)

\* C14: after a fan-out, no connection that the fan-out found not open is
\* left in the subscriber set (and none of them was sent the segment).
C14_ClosedFoundIsRemoved ==
  last.op = "data" =>
    /\ last.closed \cap last.got = {}
    /\ last.closed \cap Range(clients) = {}

\* C17: the producer handle is present exactly when the state is Running, and
\* a stop() invoked while Idle sends no termination request.
C17_HandleIffRunning ==
  /\ (ffmpeg # 0) <=> isRunning
  /\ (last.op \in {"leave", "shutdown"} /\ last.stops = 1 /\ ~last.wasRunning)
       => last.kills = 0

\* C19: a segment emitted by a process that stop() has already sent SIGTERM
\* is not fanned out to any subscriber.
C19_NoOutputAfterStop ==
  (last.op = "data" /\ proc[emitLog[Len(emitLog)]] = "killed") => last.got = {}

\* ------------------------------------------------- client claims, part 2

\* One client session without append errors and without teardown: connect()
\* is called once, appendBuffer never raises, no decode error, no
\* disconnect().
NextSession ==
  \/ (nSess = 0 /\ Connect)
  \/ \E k \in Sessions : SourceOpen(k)
  \/ \E k \in Sessions, d \in SegDurations, ok \in BOOLEAN :
       UpdateEnd(k, d, ok, FALSE)
  \/ \E k \in Sessions : WsOpen(k)
  \/ \E k \in Sessions : WsMessage(k, FALSE)
  \/ \E k \in Sessions, f \in BOOLEAN : WsClosed(k, f)
  \/ VideoAutoPlay

\* ... in which every submitted append eventually fires its updateend
SpecClientSession ==
  /\ InitC
  /\ [][NextSession]_vars
  /\ WF_vars(\E k \in Sessions, d \in SegDurations, ok \in BOOLEAN :
               UpdateEnd(k, d, ok, FALSE))

\* C11 (as stated): in the session the hook is attached to, the only session
\* so far, a completion callback starts playback and clears the buffering
\* flag only while the flag is still set, i.e. once per session.
C11_PlaysOnce ==
  [][(clast'.op = "updateend" /\ clast'.played /\ nSess = 1
      /\ clast'.sess = mediaSourceRef) => isBuffering]_vars

\* C13 (as stated): after the handler of a transport error, a media source
\* error or a decode buffer error an error message is retained, and a
\* transport connection is opened only by the sourceopen of the session the
\* last connect() created.
C13_ErrorsEnterError ==
  /\ [](clast.op \in {"wserror", "mserror", "sberror"} => error # "null")
  /\ [][\A k \in Sessions :
          (wsState[k] = "none" /\ wsState'[k] # "none")
            => (clast'.op = "sourceopen" /\ k = nSess)]_vars

\* C15: when MediaSource is missing or the codec is unsupported, no transport
\* connection is ever opened, the hook never reports connected (neither
\* Buffering nor Streaming is shown), no MediaSource is created without
\* MediaSource support, and connect() resp. the sourceopen listener leave an
\* error message.
C15_UnsupportedIsError ==
  (~hasMSE \/ ~codecOK) =>
    /\ \A k \in Sessions : wsState[k] = "none" /\ sbState[k] = "none"
    /\ wsRef = 0 /\ ~isConnected /\ isBuffering
    /\ ~hasMSE => (nSess = 0 /\ (clast.op = "connect" => error # "null"))
    /\ clast.op = "sourceopen" => error # "null"

\* C15 witness: the sourceopen listener found the codec unsupported.
C15_Witness ==
  /\ hasMSE /\ ~codecOK
  /\ clast.op = "sourceopen" /\ error = "Codec not supported"

C18_QueueDrainsInOrder ==
  /\ (queueRef # <<>>) ~> (queueRef = <<>>)
  /\ [](submitted \o queueRef = Arrived)
  /\ [][submitted' # submitted =>
          /\ Len(submitted') = Len(submitted) + 1
          /\ \/ sbState[sourceBufferRef] = "idle"
             \/ (clast'.op = "updateend" /\ clast'.sess = sourceBufferRef
                 /\ sbState[sourceBufferRef] = "append")]_vars

\* C18 witness: s3 waited in the queue and the completion callback of s2 has
\* submitted it, which drained the queue.
C18_Witness ==
  /\ clast.op = "updateend" /\ clast.appendCalled
  /\ submitted = <<1, 2, 3>> /\ queueRef = <<>>
  /\ sbState[sourceBufferRef] = "append"

\* C20 (as stated): in the connected session, the only one so far, after a
\* completion callback that saw more than 0.5 s buffered the buffering flag
\* is cleared.
C20_StreamingAfterThreshold ==
  (/\ clast.op = "updateend" /\ nSess = 1 /\ clast.sess = mediaSourceRef
   /\ isConnected
   /\ bufEnd[clast.sess] - bufStart[clast.sess] > PlayThreshold)
    => ~isBuffering
====
